---------------------------- MODULE Spec2Model ----------------------------
(***************************************************************************)
(* Model of diesel's QueryId trait (query_builder/query_id.rs): the        *)
(* type-level computation of a query's prepared-statement cache key.       *)
(*                                                                         *)
(* An expression TYPE is a term [kind, name, args]:                        *)
(*   Struct  a type with a derived QueryId impl; name is the struct's      *)
(*           name, args its type parameters (none for a table or column)   *)
(*   Bound   Bound<SqlType, RustType>, a bind parameter                    *)
(*   Host    a Rust (host) type of a bind value; it has no QueryId impl    *)
(*   Unit    ()                                                            *)
(*   Dyn     QueryFragment<DB>, the trait object; name is DB               *)
(*   Box     Box<T>                                                        *)
(*   Ref     &'a T                                                         *)
(***************************************************************************)
EXTENDS Integers, Sequences, FiniteSets, TLC

\* Largest number of type constructors in one expression type.
MaxNodes == 3
\* Largest product of the two expression types' numbers of constructors: a
\* type of full size is paired with small ones, the others with each other.
MaxProduct == 9

Mk(kind, name, args) == [kind |-> kind, name |-> name, args |-> args]

Struct(name, args) == Mk("Struct", name, args)
Host(name)         == Mk("Host", name, <<>>)
Bound(sql, rust)   == Mk("Bound", "Bound", <<sql, rust>>)
Unit               == Mk("Unit", "()", <<>>)
Dyn(db)            == Mk("Dyn", db, <<>>)
BoxOf(t)           == Mk("Box", "Box", <<t>>)
RefOf(t)           == Mk("Ref", "&", <<t>>)

\* The columns of the table! of the tests, the SQL types of those columns,
\* the Rust types of the values the tests bind, and the backend.
Columns   == {Struct("users::name", <<>>), Struct("users::id", <<>>)}
SqlTypes  == {Struct("Integer", <<>>), Struct("VarChar", <<>>)}
HostTypes == {Host("&str"), Host("String")}
Backends  == {"Pg"}
\* The names of the derived structs with type parameters.
Tags      == {"And", "Or"}
Wrappers  == {"Box", "Ref"}

Wrap(w, t) == IF w = "Box" THEN BoxOf(t) ELSE RefOf(t)

Some(x) == [some |-> x]
None    == [none |-> TRUE]
IsSome(o) == DOMAIN o = {"some"}

\* std::any::TypeId::of::<T>(): an opaque token, equal for equal types only.
TypeId(t) == [type_id |-> t]

RECURSIVE QueryIdType(_)

\* Bound keeps the Rust type of the value in its QueryId.
QueryIdTypeKeepsHost(t) ==
    CASE t.kind = "Unit"   -> Unit
      [] t.kind = "Box"    -> QueryIdType(t.args[1])
      [] t.kind = "Ref"    -> QueryIdType(t.args[1])
      [] t.kind = "Dyn"    -> Unit
      [] t.kind = "Bound"  -> Bound(QueryIdType(t.args[1]), t.args[2])
      [] t.kind = "Struct" ->
            Struct(t.name, [i \in 1..Len(t.args) |-> QueryIdType(t.args[i])])

\* The QueryId of a derived struct is made of its parameters' QueryIds
\* under one common name, not the struct's.
QueryIdTypeDropsName(t) ==
    CASE t.kind = "Unit"   -> Unit
      [] t.kind = "Box"    -> QueryIdType(t.args[1])
      [] t.kind = "Ref"    -> QueryIdType(t.args[1])
      [] t.kind = "Dyn"    -> Unit
      [] t.kind = "Bound"  -> Bound(QueryIdType(t.args[1]), Unit)
      [] t.kind = "Struct" ->
            IF t.args = <<>> THEN t
            ELSE Struct("", [i \in 1..Len(t.args) |-> QueryIdType(t.args[i])])

\* &'a T gets a QueryId of its own instead of T's.
QueryIdTypeRefOwn(t) ==
    CASE t.kind = "Unit"   -> Unit
      [] t.kind = "Box"    -> QueryIdType(t.args[1])
      [] t.kind = "Ref"    -> RefOf(QueryIdType(t.args[1]))
      [] t.kind = "Dyn"    -> Unit
      [] t.kind = "Bound"  -> Bound(QueryIdType(t.args[1]), Unit)
      [] t.kind = "Struct" ->
            Struct(t.name, [i \in 1..Len(t.args) |-> QueryIdType(t.args[i])])

\* The QueryId of the trait object is a type of its own, not ().
QueryIdTypeDynOwn(t) ==
    CASE t.kind = "Unit"   -> Unit
      [] t.kind = "Box"    -> QueryIdType(t.args[1])
      [] t.kind = "Ref"    -> QueryIdType(t.args[1])
      [] t.kind = "Dyn"    -> t
      [] t.kind = "Bound"  -> Bound(QueryIdType(t.args[1]), Unit)
      [] t.kind = "Struct" ->
            Struct(t.name, [i \in 1..Len(t.args) |-> QueryIdType(t.args[i])])

\* The associated type T::QueryId.
QueryIdType(t) ==
    CASE t.kind = "Unit"   -> Unit
      [] t.kind = "Box"    -> QueryIdType(t.args[1])
      [] t.kind = "Ref"    -> QueryIdType(t.args[1])
      [] t.kind = "Dyn"    -> Unit
      [] t.kind = "Bound"  -> Bound(QueryIdType(t.args[1]), Unit)
      [] t.kind = "Struct" ->
            Struct(t.name, [i \in 1..Len(t.args) |-> QueryIdType(t.args[i])])

RECURSIVE HAS_STATIC_QUERY_ID(_)

\* A derived struct is static as soon as one type parameter is.
HasStaticAnyField(t) ==
    CASE t.kind = "Unit"   -> TRUE
      [] t.kind = "Box"    -> HAS_STATIC_QUERY_ID(t.args[1])
      [] t.kind = "Ref"    -> HAS_STATIC_QUERY_ID(t.args[1])
      [] t.kind = "Dyn"    -> FALSE
      [] t.kind = "Bound"  -> HAS_STATIC_QUERY_ID(t.args[1])
      [] t.kind = "Struct" ->
            \/ t.args = <<>>
            \/ \E i \in 1..Len(t.args) : HAS_STATIC_QUERY_ID(t.args[i])

\* Box<T> does not set the constant and gets the trait's default, true.
HasStaticBoxDefault(t) ==
    CASE t.kind = "Unit"   -> TRUE
      [] t.kind = "Box"    -> TRUE
      [] t.kind = "Ref"    -> HAS_STATIC_QUERY_ID(t.args[1])
      [] t.kind = "Dyn"    -> FALSE
      [] t.kind = "Bound"  -> HAS_STATIC_QUERY_ID(t.args[1])
      [] t.kind = "Struct" ->
            \A i \in 1..Len(t.args) : HAS_STATIC_QUERY_ID(t.args[i])

\* () is given the constant of the trait object, false.
HasStaticUnitFalse(t) ==
    CASE t.kind = "Unit"   -> FALSE
      [] t.kind = "Box"    -> HAS_STATIC_QUERY_ID(t.args[1])
      [] t.kind = "Ref"    -> HAS_STATIC_QUERY_ID(t.args[1])
      [] t.kind = "Dyn"    -> FALSE
      [] t.kind = "Bound"  -> HAS_STATIC_QUERY_ID(t.args[1])
      [] t.kind = "Struct" ->
            \A i \in 1..Len(t.args) : HAS_STATIC_QUERY_ID(t.args[i])

\* The trait object does not set the constant and gets the default, true.
HasStaticDynDefault(t) ==
    CASE t.kind = "Unit"   -> TRUE
      [] t.kind = "Box"    -> HAS_STATIC_QUERY_ID(t.args[1])
      [] t.kind = "Ref"    -> HAS_STATIC_QUERY_ID(t.args[1])
      [] t.kind = "Dyn"    -> TRUE
      [] t.kind = "Bound"  -> HAS_STATIC_QUERY_ID(t.args[1])
      [] t.kind = "Struct" ->
            \A i \in 1..Len(t.args) : HAS_STATIC_QUERY_ID(t.args[i])

\* The associated constant T::HAS_STATIC_QUERY_ID.
HAS_STATIC_QUERY_ID(t) ==
    CASE t.kind = "Unit"   -> TRUE
      [] t.kind = "Box"    -> HAS_STATIC_QUERY_ID(t.args[1])
      [] t.kind = "Ref"    -> HAS_STATIC_QUERY_ID(t.args[1])
      [] t.kind = "Dyn"    -> FALSE
      [] t.kind = "Bound"  -> HAS_STATIC_QUERY_ID(t.args[1])
      [] t.kind = "Struct" ->
            \A i \in 1..Len(t.args) : HAS_STATIC_QUERY_ID(t.args[i])

\* query_id() without the test of HAS_STATIC_QUERY_ID.
query_id_unguarded(t) == Some(TypeId(QueryIdType(t)))

\* T::query_id()
query_id(t) ==
    IF HAS_STATIC_QUERY_ID(t) THEN Some(TypeId(QueryIdType(t))) ELSE None

\* The number of type constructors of a type; a bind parameter counts once.
RECURSIVE Nodes(_)
RECURSIVE SumNodes(_, _)
SumNodes(args, n) ==
    IF n = 0 THEN 0 ELSE Nodes(args[n]) + SumNodes(args, n - 1)
Nodes(t) ==
    IF t.kind \in {"Bound", "Host"} THEN 1 ELSE 1 + SumNodes(t.args, Len(t.args))

\* The expression types with one constructor.
Atoms ==
    Columns \cup {Bound(s, r) : s \in SqlTypes, r \in HostTypes}
            \cup {Unit} \cup {Dyn(db) : db \in Backends}

VARIABLES
    e,       \* e[1], e[2]: the types of the two expressions being built
    called,  \* whether query_id was called on both since they were built
    ids      \* ids[i]: what query_id returned for e[i], when called

vars == <<e, called, ids>>

NotCalled == <<None, None>>

Init ==
    /\ e \in [{1, 2} -> Atoms]
    /\ called = FALSE
    /\ ids = NotCalled

Fits(i, t) ==
    /\ Nodes(t) <= MaxNodes
    /\ Nodes(t) * Nodes(e[3 - i]) <= MaxProduct

Set(i, t) ==
    /\ Fits(i, t)
    /\ e' = [e EXCEPT ![i] = t]
    /\ called' = FALSE
    /\ ids' = NotCalled

\* Box::new(x) or &x
WrapExpr(i, w) == Set(i, Wrap(w, e[i]))

\* A derived struct is built around the expression: tag<e[i]>
Derive(i, tag) == Set(i, Struct(tag, <<e[i]>>))

\* One more type parameter x, after (TRUE) or before (FALSE) the others.
AddField(i, x, after) ==
    /\ e[i].kind = "Struct"
    /\ Len(e[i].args) >= 1
    /\ Set(i, Struct(e[i].name,
                     IF after THEN Append(e[i].args, x) ELSE <<x>> \o e[i].args))

\* The expression is coerced to the trait object QueryFragment<DB>.
Erase(i, db) == Set(i, Dyn(db))

\* id1 = query_id(e1); id2 = query_id(e2)
Call ==
    /\ ~called
    /\ called' = TRUE
    /\ ids' = <<query_id(e[1]), query_id(e[2])>>
    /\ UNCHANGED e

Next ==
    \/ \E i \in {1, 2}, w \in Wrappers : WrapExpr(i, w)
    \/ \E i \in {1, 2}, tag \in Tags : Derive(i, tag)
    \/ \E i \in {1, 2}, x \in Atoms, after \in BOOLEAN : AddField(i, x, after)
    \/ \E i \in {1, 2}, db \in Backends : Erase(i, db)
    \/ Call

Spec == Init /\ [][Next]_vars

----------------------------------------------------------------------------
(* Vocabulary of the properties *)

Name  == Struct("users::name", <<>>)
Id    == Struct("users::id", <<>>)
Pg    == Dyn("Pg")
Both  == {1, 2}

IsWrapper(t)   == t.kind \in {"Box", "Ref"}
IsComposite(t) == t.kind = "Struct" /\ Len(t.args) >= 1

\* The type under all its outer Box and & wrappers.
RECURSIVE Unwrap(_)
Unwrap(t) == IF IsWrapper(t) THEN Unwrap(t.args[1]) ELSE t

\* w is u wrapped in Box or &, one or more times.
RECURSIVE Wraps(_, _)
Wraps(w, u) == IsWrapper(w) /\ (w.args[1] = u \/ Wraps(w.args[1], u))

\* Some constituent of t, at any depth, is not static.
RECURSIVE HasNonStaticPart(_)
HasNonStaticPart(t) ==
    /\ t.kind \in {"Struct", "Box", "Ref"}
    /\ \E j \in 1..Len(t.args) :
          \/ ~HAS_STATIC_QUERY_ID(t.args[j])
          \/ HasNonStaticPart(t.args[j])

\* The trait object occurs in t.
RECURSIVE ContainsDyn(_)
ContainsDyn(t) ==
    \/ t.kind = "Dyn"
    \/ /\ t.kind \in {"Struct", "Box", "Ref"}
       /\ \E j \in 1..Len(t.args) : ContainsDyn(t.args[j])

\* t with the Rust type of every bind parameter forgotten.
RECURSIVE EraseHost(_)
EraseHost(t) ==
    CASE t.kind = "Bound" -> Mk("Bound", "Bound", <<t.args[1]>>)
      [] t.kind \in {"Struct", "Box", "Ref"} ->
            Mk(t.kind, t.name, [j \in 1..Len(t.args) |-> EraseHost(t.args[j])])
      [] OTHER -> t

\* t with every bind parameter forgotten, SQL type and Rust type.
RECURSIVE EraseBound(_)
EraseBound(t) ==
    CASE t.kind = "Bound" -> Mk("Bound", "Bound", <<>>)
      [] t.kind \in {"Struct", "Box", "Ref"} ->
            Mk(t.kind, t.name, [j \in 1..Len(t.args) |-> EraseBound(t.args[j])])
      [] OTHER -> t

\* t without any Box or & wrapper, at any depth, and without the Rust types
\* of its bind parameters.
RECURSIVE Strip(_)
Strip(t) ==
    CASE IsWrapper(t)      -> Strip(t.args[1])
      [] t.kind = "Bound"  -> Mk("Bound", "Bound", <<t.args[1]>>)
      [] t.kind = "Struct" ->
            Struct(t.name, [j \in 1..Len(t.args) |-> Strip(t.args[j])])
      [] OTHER -> t

\* a and b are the same type once wrappers are removed, the Rust types of
\* bind parameters are disregarded, and the trait object is taken for ().
RECURSIVE SameShape(_, _)
SameShape(a, b) ==
    IF IsWrapper(a) THEN SameShape(a.args[1], b)
    ELSE IF IsWrapper(b) THEN SameShape(a, b.args[1])
    ELSE IF a.kind \in {"Unit", "Dyn"} THEN b.kind \in {"Unit", "Dyn"}
    ELSE IF a.kind = "Bound" THEN b.kind = "Bound" /\ a.args[1] = b.args[1]
    ELSE /\ b.kind = "Struct"
         /\ a.name = b.name
         /\ Len(a.args) = Len(b.args)
         /\ \A j \in 1..Len(a.args) : SameShape(a.args[j], b.args[j])

\* d is the composite c with () added to its type parameters, last or first.
WithUnitAdded(c, d) ==
    /\ IsComposite(c)
    /\ d.kind = "Struct"
    /\ d.name = c.name
    /\ (d.args = Append(c.args, Unit) \/ d.args = <<Unit>> \o c.args)

Reverse(s) == [j \in 1..Len(s) |-> s[Len(s) + 1 - j]]

----------------------------------------------------------------------------
(* Properties *)

\* C1: query_id() returns Some(type id of T::QueryId) exactly when
\* T::HAS_STATIC_QUERY_ID is true, and None when it is false.
C1_KeyIffStatic ==
    called =>
        \A i \in Both :
            /\ IsSome(ids[i]) <=> HAS_STATIC_QUERY_ID(e[i])
            /\ HAS_STATIC_QUERY_ID(e[i]) => ids[i] = Some(TypeId(QueryIdType(e[i])))
            /\ ~HAS_STATIC_QUERY_ID(e[i]) => ids[i] = None

C1_Witness ==
    /\ called
    /\ e[1] = Struct("And", <<Name>>) /\ IsSome(ids[1])
    /\ e[2] = Struct("And", <<Pg>>) /\ ids[2] = None

\* C2: a composite is static exactly when all its constituents are; with a
\* non-static constituent anywhere inside it has no key, whatever the other
\* constituents are, and with only static constituents it has one.
C2_CompositeFlagIsAnd ==
    called =>
        \A i \in Both :
            IsComposite(e[i]) =>
                /\ IsSome(ids[i]) <=>
                      \A j \in 1..Len(e[i].args) : IsSome(query_id(e[i].args[j]))
                /\ HasNonStaticPart(e[i]) => ids[i] = None
                /\ ~HasNonStaticPart(e[i]) => IsSome(ids[i])

C2_Witness ==
    /\ called
    /\ e[1] = Struct("And", <<Name, Pg>>) /\ ids[1] = None
    /\ e[2] = Struct("And", <<Name, Id>>) /\ IsSome(ids[2])

\* C3: the trait object QueryFragment<DB>, bare or behind any Box or &
\* wrappers, has no key.
C3_DynHasNoKey ==
    called =>
        \A i \in Both : Unwrap(e[i]).kind = "Dyn" => ids[i] = None

C3_Witness ==
    /\ called
    /\ e[1] = BoxOf(Pg) /\ ids[1] = None
    /\ e[2] = RefOf(BoxOf(Pg)) /\ ids[2] = None

\* C4: two static types with different QueryId types have different keys,
\* both Some: in particular when one constituent differs, when the
\* constituents are in another order, and when only the struct differs.
C4_DifferentShapesDifferentKeys ==
    called /\ HAS_STATIC_QUERY_ID(e[1]) /\ HAS_STATIC_QUERY_ID(e[2]) =>
        /\ QueryIdType(e[1]) # QueryIdType(e[2]) =>
              IsSome(ids[1]) /\ IsSome(ids[2]) /\ ids[1] # ids[2]
        /\ IsComposite(e[1]) /\ IsComposite(e[2]) =>
              \* only the struct differs
              /\ e[1].name # e[2].name /\ e[1].args = e[2].args =>
                    ids[1] # ids[2]
              \* the constituents are in reverse order
              /\ /\ e[1].name = e[2].name
                 /\ e[2].args = Reverse(e[1].args)
                 /\ Strip(e[1]) # Strip(e[2])
                 => ids[1] # ids[2]
              \* one constituent differs
              /\ /\ e[1].name = e[2].name
                 /\ Len(e[1].args) = Len(e[2].args)
                 /\ \E j \in 1..Len(e[1].args) :
                       Strip(e[1].args[j]) # Strip(e[2].args[j])
                 => ids[1] # ids[2]

C4_Witness ==
    /\ called
    /\ e[1] = Struct("And", <<Name, Id>>)
    /\ e[2] = Struct("And", <<Id, Name>>)
    /\ IsSome(ids[1]) /\ IsSome(ids[2]) /\ ids[1] # ids[2]

\* C5: a type wrapped in Box or &, any number of times in any nesting, has
\* the QueryId type, the HAS_STATIC_QUERY_ID and the key of the type wrapped.
C5_WrapperTransparent ==
    called =>
        \A i \in Both :
            Wraps(e[i], e[3 - i]) =>
                /\ QueryIdType(e[i]) = QueryIdType(e[3 - i])
                /\ HAS_STATIC_QUERY_ID(e[i]) = HAS_STATIC_QUERY_ID(e[3 - i])
                /\ ids[i] = ids[3 - i]

C5_Witness ==
    /\ called
    /\ e[1] = RefOf(BoxOf(Name))
    /\ e[2] = Name
    /\ IsSome(ids[1]) /\ ids[1] = ids[2]

C8_AsStated ==
    called =>
        ((QueryIdType(e[1]) = QueryIdType(e[2])) <=> (EraseHost(e[1]) = EraseHost(e[2])))

\* C8, amended: the QueryId types of two types are equal exactly when the
\* two are the same type once Box and & wrappers are removed, the Rust types
\* of bind parameters are disregarded and the trait object is taken for ().
C8_EqualDescriptorsIffSameShape ==
    (QueryIdType(e[1]) = QueryIdType(e[2])) <=> SameShape(e[1], e[2])

C8_Witness ==
    /\ called
    /\ e[1] = Struct("And", <<BoxOf(Name)>>)
    /\ e[2] = Struct("And", <<Name>>)
    /\ QueryIdType(e[1]) = QueryIdType(e[2])
    /\ ids[1] = ids[2]

\* C9: () is static with a fixed QueryId, so it always has the same key; and
\* a composite with () added to its constituents is static exactly when the
\* composite is.
C9_UnitIsNeutral ==
    called =>
        \A i \in Both :
            /\ e[i] = Unit => ids[i] = Some(TypeId(Unit))
            /\ WithUnitAdded(e[i], e[3 - i]) =>
                  /\ HAS_STATIC_QUERY_ID(e[3 - i]) = HAS_STATIC_QUERY_ID(e[i])
                  /\ IsSome(ids[3 - i]) <=> IsSome(ids[i])

C9_Witness ==
    /\ called
    /\ e[1] = Struct("And", <<Pg>>)
    /\ e[2] = Struct("And", <<Pg, Unit>>)
    /\ ids[1] = None /\ ids[2] = None

\* C10: the QueryId of the trait object, (), is never seen in a key: two
\* types with the same Some key hold no trait object and are the same type
\* once wrappers and the Rust types of bind parameters are removed; so a
\* composite holding the trait object never has the key of the composite
\* holding () in its place.
C10_PlaceholderNeverObserved ==
    called /\ IsSome(ids[1]) /\ IsSome(ids[2]) /\ ids[1] = ids[2] =>
        /\ ~ContainsDyn(e[1])
        /\ ~ContainsDyn(e[2])
        /\ Strip(e[1]) = Strip(e[2])

C10_Witness ==
    /\ called
    /\ e[1] = Struct("And", <<Pg, Name>>)
    /\ e[2] = Struct("And", <<Unit, Name>>)
    /\ QueryIdType(e[1]) = QueryIdType(e[2])
    /\ ids[1] = None /\ IsSome(ids[2])

=============================================================================
